---- MODULE Spec2Model ----
(***************************************************************************)
(* A model of main.py: the reconciliation of a declarative configuration   *)
(* (teams, memberships, repository team permissions) against a GitHub      *)
(* organization.  The remote organization is a pair of variables (rTeams,  *)
(* rRepos); every call of the PyGithub client is recorded in the call log  *)
(* of the invocation that issues it.  A remote call may fail: the k-th     *)
(* call of an invocation fails when k is in the failure set F the          *)
(* invocation is run under, or when the remote state makes it fail (a      *)
(* lookup of a team or repository that does not exist).  Python sets and   *)
(* the listing of a repository's teams iterate in an order the program     *)
(* does not control: that order is the parameter ord, a permutation.       *)
(***************************************************************************)
EXTENDS Naturals, Sequences, FiniteSets, TLC

\* ------------------------------------------------------------------ bounds
NTeams == 3
NUsers == 3
NRepos == 2
MaxFail == 1

TeamNames == <<"t1", "t2", "t3", "t4", "t5">>
UserNames == <<"a", "b", "c", "d", "e">>
RepoNames == <<"r1", "r2", "r3", "r4">>
Teams == {TeamNames[i] : i \in 1..NTeams}
Users == {UserNames[i] : i \in 1..NUsers}
Repos == {RepoNames[i] : i \in 1..NRepos}

\* Python's None: team.get('parent') of a team without parent, args.target unset.
None == "None"

\* ----------------------------------------------------------------- helpers
Range(s) == {s[i] : i \in 1..Len(s)}

NoDup(s) == \A i, j \in 1..Len(s) : i # j => s[i] # s[j]

\* All the orders in which a set may be iterated.
Perms(S) == {s \in [1..Cardinality(S) -> S] : Range(s) = S}

\* The elements of S in the order ord lists them.
InOrder(S, ord) == SelectSeq(ord, LAMBDA x : x \in S)

\* The failure sets an invocation of at most n remote calls can run under.
FailSets(n) == {F \in SUBSET (1..n) : Cardinality(F) <= MaxFail}

\* list[::-1]
Reverse_id(s) == s
Reverse(s) == [i \in 1..Len(s) |-> s[Len(s) + 1 - i]]

\* ---------------------------------------------------------------- ChangeSet
\* changes = defaultdict(list): every category reads as the empty list until
\* something is appended to it.
EmptyChanges == [create |-> <<>>, update |-> <<>>, add |-> <<>>,
                 remove |-> <<>>, error |-> <<>>]

\* The entries are f-strings; an entry is modelled as the sequence of its
\* words, which is what str.split() makes of it (names hold no blanks).
MsgWouldUpdate(t) == <<"Would", "update", "existing", "team:", t>>
MsgWouldChangeVisibility(t) == <<"Would", "change", t, "visibility", "to", "public">>
MsgWouldCreate(t) == <<"Would", "create", "new", "public", "team:", t>>
MsgChangeVisibility(t) == <<"Change", t, "visibility", "to", "public">>
MsgSetParent(t, p) == <<"Set", "parent", "team", "of", t, "to", p>>
MsgAdd(u, t, role) == <<"Add", u, "to", t, "as", role>>
MsgRemove(u, t) == <<"Remove", u, "from", t>>

\* change.split()[1]
SplitMember(change) == change[2]

RoleOf_swapped(member, maintainers) ==
    IF member \in maintainers THEN "member" ELSE "maintainer"
\* role = "maintainer" if member in maintainers else "member"
RoleOf(member, maintainers) ==
    IF member \in maintainers THEN "maintainer" ELSE "member"

\* ------------------------------------------------------------ remote calls
\* The identity the token belongs to: g.get_user().login.
current_user == UserNames[1]

MutatingCalls == {"create_team", "edit", "add_membership", "remove_membership",
                  "update_team_repository", "remove_from_repo"}

IsMutating(call) == call[1] \in MutatingCalls

Mutations(callLog) == SelectSeq(callLog, IsMutating)

\* An invocation in progress: the remote teams and repositories, the calls
\* issued so far, whether an exception is propagating, and the ChangeSet
\* being built.
Machine(rt, rr) == [rt |-> rt, rr |-> rr, calls |-> <<>>, exc |-> FALSE,
                    changes |-> EmptyChanges]

Issue(m, call) == [m EXCEPT !.calls = Append(@, call)]

\* The call just issued is one the failure set makes fail.
Injected(m, F) == Len(m.calls) \in F

Raise(m) == [m EXCEPT !.exc = TRUE]

\* How many of the calls issued were made to fail by the failure set.
NFail(callLog, F) == Cardinality(F \cap (1..Len(callLog)))

\* ------------------------------------------------------------ remote state
\* A remote team: visibility, parent (a slug or None) and its members, a
\* function from the logins of the members to their roles.
NoMembers == [u \in {} |-> "member"]

RemoteTeam(privacy, parent, members) ==
    [privacy |-> privacy, parent |-> parent, members |-> members]

MembersOf(rt, t) == IF t \in DOMAIN rt THEN DOMAIN rt[t].members ELSE {}

WithTeam(rt, t, team) == [x \in DOMAIN rt \cup {t} |-> IF x = t THEN team ELSE rt[x]]

\* team.add_membership(user, role=role)
AddMembership(rt, t, u, role) ==
    [rt EXCEPT ![t].members =
        [x \in DOMAIN @ \cup {u} |-> IF x = u THEN role ELSE @[x]]]

\* team.remove_membership(user)
RemoveMembership(rt, t, u) ==
    [rt EXCEPT ![t].members = [x \in DOMAIN @ \ {u} |-> @[x]]]

\* ---------------------------------------------------- create_or_update_team
\* The add and remove entries: one per name of desired - current and of
\* current - desired, in the order the two sets are iterated.
AddEntries(team_name, maintainers, desired_members, current_members, ord) ==
    LET names == InOrder(desired_members \ current_members, ord)
    IN  [i \in 1..Len(names) |->
            MsgAdd(names[i], team_name, RoleOf(names[i], maintainers))]

RemoveEntries(team_name, desired_members, current_members, ord) ==
    LET names == InOrder(current_members \ desired_members, ord)
    IN  [i \in 1..Len(names) |-> MsgRemove(names[i], team_name)]

\* What the lookup of an existing team records under 'update'.
ExistingTeamEntries_quiet(rt, team_name) ==
    IF rt[team_name].privacy # "closed"
    THEN <<MsgWouldChangeVisibility(team_name)>>
    ELSE <<>>
ExistingTeamEntries(rt, team_name) ==
    <<MsgWouldUpdate(team_name)>> \o
    (IF rt[team_name].privacy # "closed"
     THEN <<MsgWouldChangeVisibility(team_name)>>
     ELSE <<>>)

\* The result is [changes, calls, exc]: the ChangeSet returned (meaningless
\* when exc, an exception having left the function), and the calls issued.
\* The function reads the remote state and never writes it.
create_or_update_team(rt, team_name, maintainers, members, parent_name, dry_run, F, ord) ==
    LET m1 == Issue(Machine(rt, <<>>), <<"get_team_by_slug", team_name>>)
        \* the bare except: any failure of the lookup reads as "no such team"
        found == team_name \in DOMAIN rt /\ ~Injected(m1, F)
        c1 == IF found
              THEN [EmptyChanges EXCEPT !.update = ExistingTeamEntries(rt, team_name)]
              ELSE [EmptyChanges EXCEPT !.create = <<MsgWouldCreate(team_name)>>]
        live == found /\ ~dry_run
        c2 == IF live /\ rt[team_name].privacy # "closed"
              THEN [c1 EXCEPT !.update = Append(@, MsgChangeVisibility(team_name))]
              ELSE c1
        m2 == IF live /\ parent_name # None
              THEN Issue(m1, <<"get_team_by_slug", parent_name>>)
              ELSE m1
        m3 == IF live /\ parent_name # None
                 /\ (parent_name \notin DOMAIN rt \/ Injected(m2, F))
              THEN Raise(m2)
              ELSE m2
        c3 == IF live /\ parent_name # None /\ ~m3.exc
                 /\ rt[team_name].parent # parent_name
              THEN [c2 EXCEPT !.update = Append(@, MsgSetParent(team_name, parent_name))]
              ELSE c2
        m4 == IF found /\ ~m3.exc
              THEN Issue(m3, <<"get_members", team_name>>)
              ELSE m3
        m5 == IF found /\ ~m3.exc /\ Injected(m4, F) THEN Raise(m4) ELSE m4
        current_members == IF found THEN MembersOf(rt, team_name) ELSE {}
        desired_members == maintainers \cup members
        c4 == [c3 EXCEPT
                 !.add = AddEntries(team_name, maintainers, desired_members,
                                    current_members, ord),
                 !.remove = RemoveEntries(team_name, desired_members,
                                          current_members, ord)]
    IN  [changes |-> IF m5.exc THEN EmptyChanges ELSE c4,
         calls |-> m5.calls, exc |-> m5.exc]

\* ------------------------------------------------------------ apply_changes
\* org.create_team(name=team_name, privacy='closed').  GitHub may make the
\* creating identity a maintainer of the new team (the reason the script
\* has remove_current_user_from_teams): auto says whether it does.
CreatedTeam(auto) ==
    RemoteTeam("closed", None,
               IF auto THEN [u \in {current_user} |-> "maintainer"] ELSE NoMembers)

\* Statement sequencing: K applied to the value of m.
Then(m, K(_)) == CHOOSE r \in {K(x) : x \in {m}} : TRUE

\* try: team = org.get_team_by_slug(team_name)
\* except: team = org.create_team(name=team_name, privacy='closed')
FetchOrCreate(m, team_name, F, auto) ==
    Then(Issue(m, <<"get_team_by_slug", team_name>>), LAMBDA m1 :
        IF team_name \in DOMAIN m1.rt /\ ~Injected(m1, F) THEN m1
        ELSE Then(Issue(m1, <<"create_team", team_name, "closed">>), LAMBDA m2 :
            \* a team of that name exists already: the creation is refused
            IF team_name \in DOMAIN m2.rt \/ Injected(m2, F) THEN Raise(m2)
            ELSE [m2 EXCEPT !.rt = WithTeam(@, team_name, CreatedTeam(auto))]))

\* if team.privacy != 'closed': team.edit(name=team_name, privacy='closed')
CorrectVisibility(m, team_name, F) ==
    IF m.exc \/ m.rt[team_name].privacy = "closed" THEN m
    ELSE Then(Issue(m, <<"edit", team_name, "privacy", "closed">>), LAMBDA m1 :
            IF Injected(m1, F) THEN Raise(m1)
            ELSE [m1 EXCEPT !.rt[team_name].privacy = "closed"])

\* if parent_name: ... team.edit(name=team_name, parent_team_id=parent_team.id)
Reparent(m, team_name, parent_name, F) ==
    IF m.exc \/ parent_name = None THEN m
    ELSE Then(Issue(m, <<"get_team_by_slug", parent_name>>), LAMBDA m1 :
            IF parent_name \notin DOMAIN m1.rt \/ Injected(m1, F) THEN Raise(m1)
            ELSE IF m1.rt[team_name].parent = parent_name THEN m1
            ELSE Then(Issue(m1, <<"edit", team_name, "parent_team_id", parent_name>>),
                      LAMBDA m2 :
                        IF Injected(m2, F) THEN Raise(m2)
                        ELSE [m2 EXCEPT !.rt[team_name].parent = parent_name]))

\* One 'add' or 'remove' entry applied: g.get_user(member), then the
\* membership call.  op is <<kind, entry>>.
ApplyEntry(m, team_name, maintainers, op, F) ==
    LET member == SplitMember(op[2])
        role == RoleOf(member, maintainers)
    IN  Then(Issue(m, <<"get_user", member>>), LAMBDA m1 :
          IF Injected(m1, F) THEN Raise(m1)
          ELSE IF op[1] = "add"
          THEN Then(Issue(m1, <<"add_membership", team_name, member, role>>),
                    LAMBDA m2 :
                      IF Injected(m2, F) THEN Raise(m2)
                      ELSE [m2 EXCEPT !.rt = AddMembership(@, team_name, member, role)])
          ELSE Then(Issue(m1, <<"remove_membership", team_name, member>>),
                    LAMBDA m2 :
                      IF Injected(m2, F) THEN Raise(m2)
                      ELSE [m2 EXCEPT !.rt = RemoveMembership(@, team_name, member)]))

RECURSIVE ApplyMembership(_, _, _, _, _)
ApplyMembership(m, team_name, maintainers, ops, F) ==
    IF ops = <<>> \/ m.exc THEN m
    ELSE Then(ApplyEntry(m, team_name, maintainers, Head(ops), F), LAMBDA m1 :
            ApplyMembership(m1, team_name, maintainers, Tail(ops), F))

MembershipOps_removeFirst(changes) ==
    [i \in 1..Len(changes.remove) |-> <<"remove", changes.remove[i]>>] \o
    [i \in 1..Len(changes.add) |-> <<"add", changes.add[i]>>]
\* for change in changes['add'] ..., then for change in changes['remove'] ...
MembershipOps(changes) ==
    [i \in 1..Len(changes.add) |-> <<"add", changes.add[i]>>] \o
    [i \in 1..Len(changes.remove) |-> <<"remove", changes.remove[i]>>]

\* The most calls one apply_changes can issue: the lookup, the creation or
\* the visibility correction, the parent's lookup and the re-parenting, and
\* two per entry.
ApplyCalls(rt, team_name, parent_name, changes) ==
    1 + (IF team_name \notin DOMAIN rt THEN 1
         ELSE IF rt[team_name].privacy # "closed" THEN 1 ELSE 0)
      + (IF parent_name # None THEN 2 ELSE 0)
      + 2 * (Len(changes.add) + Len(changes.remove))

\* The result is [rt, calls, exc]: the remote teams afterwards.
apply_changes(rt, team_name, maintainers, members, parent_name, changes, F, auto) ==
    Then(FetchOrCreate(Machine(rt, <<>>), team_name, F, auto), LAMBDA m1 :
    Then(CorrectVisibility(m1, team_name, F), LAMBDA m2 :
    Then(Reparent(m2, team_name, parent_name, F), LAMBDA m3 :
    Then(ApplyMembership(m3, team_name, maintainers, MembershipOps(changes), F),
         LAMBDA m4 : [rt |-> m4.rt, calls |-> m4.calls, exc |-> m4.exc]))))

\* ------------------------------------------- process_repository_permissions
translate_permission_id(perm) == perm
translate_permission(perm) ==
    IF perm = "read" THEN "pull"
    ELSE IF perm = "write" THEN "push"
    ELSE perm

MsgRepoNotFound(r) == <<"Repository", r, "not", "found">>
MsgWouldAddTeam(t, r, perm) ==
    <<"Would", "add", "team", t, "to", r, "with", perm, "permission">>
MsgWouldUpdateTeam(t, r, from, perm) ==
    <<"Would", "update", "team", t, "permission", "on", r, "from", from, "to", perm>>
MsgErrorProcessing(t, r) == <<"Error", "processing", "team", t, "for", r>>
MsgWouldRemoveTeam(t, r) == <<"Would", "remove", "team", t, "from", r>>

\* team_permissions is a dict: here the sequence of its (team, permission)
\* items, in the order of the configuration.
Keys(team_permissions) == {team_permissions[i][1] : i \in 1..Len(team_permissions)}

\* A repository's team grants: a function from team names to permissions.
NoGrants == [t \in {} |-> "pull"]

Grant(grants, t, perm) ==
    [x \in DOMAIN grants \cup {t} |-> IF x = t THEN perm ELSE grants[x]]

Revoke_kept(grants, t) == grants
Revoke(grants, t) == [x \in DOMAIN grants \ {t} |-> grants[x]]

WithError(m, msg) == [m EXCEPT !.changes.error = Append(@, msg)]

\* The diff of one desired team against the grants read: lines 141-144.
DesiredEntry(m, repo_name, team_name, permission, current_teams) ==
    IF team_name \notin DOMAIN current_teams
    THEN [m EXCEPT !.changes.add =
            Append(@, MsgWouldAddTeam(team_name, repo_name, permission))]
    ELSE IF current_teams[team_name] # translate_permission(permission)
    THEN [m EXCEPT !.changes.update =
            Append(@, MsgWouldUpdateTeam(team_name, repo_name,
                                         current_teams[team_name], permission))]
    ELSE m

\* One turn of the loop over team_permissions.items(): lines 137-150.
ProcessDesired(m, repo_name, item, current_teams, dry_run, F) ==
    LET team_name == item[1]
        permission == item[2]
        github_permission == translate_permission(permission)
        error == MsgErrorProcessing(team_name, repo_name)
    IN  Then(Issue(m, <<"get_team_by_slug", team_name>>), LAMBDA m1 :
          IF team_name \notin DOMAIN m1.rt \/ Injected(m1, F)
          THEN WithError(m1, error)
          ELSE Then(DesiredEntry(m1, repo_name, team_name, permission, current_teams),
                    LAMBDA m2 :
            IF dry_run THEN m2
            ELSE Then(Issue(m2, <<"update_team_repository", team_name, repo_name,
                                  github_permission>>), LAMBDA m3 :
                   IF Injected(m3, F) THEN WithError(m3, error)
                   ELSE [m3 EXCEPT !.rr[repo_name] =
                            Grant(@, team_name, github_permission)])))

RECURSIVE DesiredLoop(_, _, _, _, _, _)
DesiredLoop(m, repo_name, items, current_teams, dry_run, F) ==
    IF items = <<>> THEN m
    ELSE Then(ProcessDesired(m, repo_name, Head(items), current_teams, dry_run, F),
              LAMBDA m1 :
                DesiredLoop(m1, repo_name, Tail(items), current_teams, dry_run, F))

\* One turn of the loop over current_teams: lines 153-158.
ProcessCurrent(m, repo_name, team_name, team_permissions, dry_run, F) ==
    IF team_name \in Keys(team_permissions) THEN m
    ELSE Then([m EXCEPT !.changes.remove =
                    Append(@, MsgWouldRemoveTeam(team_name, repo_name))], LAMBDA m1 :
          IF dry_run THEN m1
          ELSE Then(Issue(m1, <<"get_team_by_slug", team_name>>), LAMBDA m2 :
            IF team_name \notin DOMAIN m2.rt \/ Injected(m2, F) THEN Raise(m2)
            ELSE Then(Issue(m2, <<"remove_from_repo", team_name, repo_name>>),
                      LAMBDA m3 :
                        IF Injected(m3, F) THEN Raise(m3)
                        ELSE [m3 EXCEPT !.rr[repo_name] = Revoke(@, team_name)])))

RECURSIVE CurrentLoop(_, _, _, _, _, _)
CurrentLoop(m, repo_name, names, team_permissions, dry_run, F) ==
    IF names = <<>> \/ m.exc THEN m
    ELSE Then(ProcessCurrent(m, repo_name, Head(names), team_permissions, dry_run, F),
              LAMBDA m1 :
                CurrentLoop(m1, repo_name, Tail(names), team_permissions, dry_run, F))

\* What follows the failure of org.get_repo: lines 130-132.  (Without the
\* return, the next statement reads the unbound name repo.)
RepoNotFound_noReturn(m, repo_name) ==
    Raise(WithError(m, MsgRepoNotFound(repo_name)))
RepoNotFound(m, repo_name) ==
    WithError(m, MsgRepoNotFound(repo_name))

\* The rest of the function once the repository is found: lines 134-160.
\* ord is the order in which repo.get_teams() lists the teams.
RepoFound(m, repo_name, team_permissions, dry_run, F, ord) ==
    Then(Issue(m, <<"get_teams", repo_name>>), LAMBDA m1 :
      IF Injected(m1, F) THEN Raise(m1)
      ELSE
        LET current_teams == m1.rr[repo_name]
        IN  Then(DesiredLoop(m1, repo_name, team_permissions, current_teams,
                             dry_run, F), LAMBDA m2 :
              CurrentLoop(m2, repo_name, InOrder(DOMAIN current_teams, ord),
                          team_permissions, dry_run, F)))

\* The most calls one process_repository_permissions can issue: get_repo,
\* get_teams, a lookup (and live, an update) per desired team and, live, a
\* lookup and a revocation per team to remove.
RepoCalls(grants, team_permissions, dry_run) ==
    IF dry_run THEN 2 + Len(team_permissions)
    ELSE 2 + 2 * (Len(team_permissions)
                  + Cardinality(DOMAIN grants \ Keys(team_permissions)))

\* The result is [rr, changes, calls, exc].
process_repository_permissions(rt, rr, repo_name, team_permissions, dry_run, F, ord) ==
    Then(Issue(Machine(rt, rr), <<"get_repo", repo_name>>), LAMBDA m1 :
    Then(IF repo_name \notin DOMAIN m1.rr \/ Injected(m1, F)
         THEN RepoNotFound(m1, repo_name)
         ELSE RepoFound(m1, repo_name, team_permissions, dry_run, F, ord),
         LAMBDA m2 : [rr |-> m2.rr, changes |-> m2.changes,
                      calls |-> m2.calls, exc |-> m2.exc]))

\* ------------------------------------------------------------------- state
VARIABLES
    mode,          \* args.mode
    dry_run,       \* args.dry_run
    target,        \* args.target, or None
    teams,         \* config['teams']
    repositories,  \* config['repositories']
    rTeams,        \* the organization's teams, by slug
    rRepos,        \* the organization's repositories, by name
    pc,            \* where the script is
    todo,          \* teams_to_process / repos_to_process
    idx,           \* the position of the loop in progress
    answer,        \* what confirm_changes() returned, "none" before it is asked
    changes,       \* the ChangeSet the last invocation returned
    calls,         \* the remote calls the last invocation issued
    last,          \* the last invocation: function, arguments, remote state before
    nwrites,       \* mutating remote calls issued so far
    injected,      \* remote calls made to fail by the failure sets so far
    ncalls,        \* remote calls issued so far, reads and writes
    ts,            \* topological_sort's locals
    gd             \* get_dependent_teams' locals

vars == <<mode, dry_run, target, teams, repositories, rTeams, rRepos, pc, todo,
          idx, answer, changes, calls, last, nwrites, injected, ncalls, ts, gd>>

argVars == <<mode, dry_run, target>>
callVars == <<changes, calls, last, nwrites, injected, ncalls>>
configVars == <<teams, repositories>>
orderVars == <<ts, gd>>

TeamSpec(name, parent, maintainers, members) ==
    [name |-> name, parent |-> parent, maintainers |-> maintainers,
     members |-> members]

NoInvocation == [op |-> "none"]
IdleSort == [pc |-> "idle"]
IdleDep == [pc |-> "idle"]

\* What an invocation leaves behind, whoever invoked it: its calls, which
\* of them were made to fail, and whether an exception left it.
Returned(op, name, dry, pre, r, F) ==
    /\ calls' = r.calls
    /\ last' = [op |-> op, name |-> name, dry |-> dry, pre |-> pre,
                exc |-> r.exc, failed |-> F \cap (1..Len(r.calls)),
                nfail |-> NFail(r.calls, F)]
    /\ injected' = injected + NFail(r.calls, F)
    /\ nwrites' = nwrites + Len(Mutations(r.calls))
    /\ ncalls' = ncalls + Len(r.calls)

\* ------------------------------------- the team functions, called directly
\* One team, HTeam, reconciled by direct calls of create_or_update_team and
\* apply_changes; its desired parent, when it has one, is HParent.
HTeam == TeamNames[1]
HParent == TeamNames[2]

MemberSets == {[u \in C |-> "member"] : C \in SUBSET Users}

\* The organization before the calls: HParent exists; HTeam does not, or
\* exists with a visibility and a parent of `structures` (pairs of remote
\* and desired state) and any members.
InitTeamCalls(desired, structures) ==
    /\ mode = "teams" /\ dry_run = FALSE /\ target = None
    /\ repositories = <<>> /\ rRepos = <<>>
    /\ todo = <<>> /\ idx = 0 /\ answer = "none"
    /\ changes = EmptyChanges /\ calls = <<>> /\ last = NoInvocation
    /\ nwrites = 0 /\ injected = 0 /\ ncalls = 0
    /\ ts = IdleSort /\ gd = IdleDep
    /\ pc = "h0"
    /\ \E d \in desired, st \in structures :
        /\ teams = <<TeamSpec(HTeam, st.want, d.maintainers, d.members)>>
        /\ \/ rTeams = [t \in {HParent} |-> RemoteTeam("closed", None, NoMembers)]
           \/ \E ms \in MemberSets :
                rTeams = [t \in {HTeam, HParent} |->
                            IF t = HTeam THEN RemoteTeam(st.privacy, st.parent, ms)
                            ELSE RemoteTeam("closed", None, NoMembers)]

AllDesired == [maintainers : SUBSET Users, members : SUBSET Users]
DisjointDesired == {d \in AllDesired : d.maintainers \cap d.members = {}}

AllStructures == [privacy : {"closed", "secret"}, parent : {None, HParent},
                  want : {None, HParent}]
SomeStructures == {[privacy |-> "secret", parent |-> None, want |-> HParent],
                   [privacy |-> "closed", parent |-> HParent, want |-> HParent],
                   [privacy |-> "closed", parent |-> None, want |-> None]}

InitDiff == InitTeamCalls(AllDesired, AllStructures)
InitApply == InitTeamCalls(DisjointDesired, SomeStructures)

\* The orders in which create_or_update_team may come to iterate
\* desired - current and current - desired (the names of neither have no
\* place in the order).
DiffOrders(rt, t, F) ==
    LET current == IF 1 \in F THEN {} ELSE MembersOf(rt, t.name)
        desired == t.maintainers \cup t.members
    IN  Perms((desired \ current) \cup (current \ desired))

\* The most calls one create_or_update_team can issue: the lookup, live the
\* lookup of the parent, and get_members.
DiffCalls(t, dry) == IF dry \/ t.parent = None THEN 2 ELSE 3

\* changes = create_or_update_team(org, name, maintainers, members, parent, dry)
DiffCall(t, drys, nofail) ==
    \E dry \in drys :
      \E F \in IF nofail THEN {{}} ELSE FailSets(DiffCalls(t, dry)) :
      \E ord \in DiffOrders(rTeams, t, F) :
        LET r == create_or_update_team(rTeams, t.name, t.maintainers, t.members,
                                       t.parent, dry, F, ord)
        IN  /\ changes' = r.changes
            /\ Returned("create_or_update_team", t.name, dry, rTeams, r, F)

\* apply_changes(org, name, maintainers, members, parent, changes)
ApplyCall(t, nofail) ==
    \E F \in IF nofail THEN {{}} ELSE FailSets(ApplyCalls(rTeams, t.name, t.parent, changes)) :
      \E auto \in BOOLEAN :
        LET r == apply_changes(rTeams, t.name, t.maintainers, t.members,
                               t.parent, changes, F, auto)
        IN  /\ rTeams' = r.rt
            /\ Returned("apply_changes", t.name, FALSE, rTeams, r, F)

HDiff ==
    /\ pc = "h0"
    /\ DiffCall(teams[1], BOOLEAN, FALSE)
    /\ pc' = IF last'.exc THEN "raised" ELSE "h1"
    /\ UNCHANGED <<argVars, configVars, orderVars, rTeams, rRepos, todo, idx, answer>>

HApply ==
    /\ pc = "h1"
    /\ ApplyCall(teams[1], FALSE)
    /\ pc' = IF last'.exc THEN "raised" ELSE "h2"
    /\ UNCHANGED <<argVars, configVars, orderVars, rRepos, todo, idx, answer, changes>>

\* the same two calls once more, after a first round no call of which failed
HDiffAgain ==
    /\ pc = "h2" /\ injected = 0
    /\ DiffCall(teams[1], BOOLEAN, TRUE)
    /\ pc' = IF last'.exc THEN "raised" ELSE "h3"
    /\ UNCHANGED <<argVars, configVars, orderVars, rTeams, rRepos, todo, idx, answer>>

HApplyAgain ==
    /\ pc = "h3"
    /\ ApplyCall(teams[1], TRUE)
    /\ pc' = IF last'.exc THEN "raised" ELSE "h4"
    /\ UNCHANGED <<argVars, configVars, orderVars, rRepos, todo, idx, answer, changes>>

NextDiff == HDiff
SpecDiff == InitDiff /\ [][NextDiff]_vars

NextApply == HDiff \/ HApply \/ HDiffAgain \/ HApplyAgain
SpecApply == InitApply /\ [][NextApply]_vars

\* Between the two calls somebody else changes the team on GitHub: a user
\* who was a member no longer is, or a user who was not now is.
HDrift ==
    /\ pc = "h1" /\ HTeam \in DOMAIN rTeams
    /\ \E u \in Users :
        rTeams' = IF u \in MembersOf(rTeams, HTeam)
                  THEN RemoveMembership(rTeams, HTeam, u)
                  ELSE AddMembership(rTeams, HTeam, u, "member")
    /\ pc' = "h1d"
    /\ UNCHANGED <<argVars, configVars, orderVars, callVars, rRepos, todo, idx, answer>>

\* apply_changes with the ChangeSet computed before the change
HApplyStale ==
    /\ pc = "h1d"
    /\ ApplyCall(teams[1], FALSE)
    /\ pc' = IF last'.exc THEN "raised" ELSE "h2d"
    /\ UNCHANGED <<argVars, configVars, orderVars, rRepos, todo, idx, answer, changes>>

\* One diff and one apply_changes, for teams in which at most MaxSeqUsers
\* users are desired or present.
MaxSeqUsers == 2

InitSeq ==
    /\ InitApply
    /\ Cardinality(teams[1].maintainers \cup teams[1].members
                   \cup MembersOf(rTeams, HTeam)) <= MaxSeqUsers

NextSeq == HDiff \/ HApply
SpecSeq == InitSeq /\ [][NextSeq]_vars

NextDrift == HDiff \/ HDrift \/ HApplyStale
SpecDrift == InitApply /\ [][NextDrift]_vars

\* ------------------------------ process_repository_permissions, called directly
\* One repository, HRepo, and the teams RepoTeams, all of which exist.
NRepoTeams == 2
HRepo == RepoNames[1]
RepoTeams == {TeamNames[i] : i \in 1..NRepoTeams}

Levels == {"read", "write", "admin", "maintain", "triage"}

\* The permission GitHub reports for a granted level.
GitHubName(level) ==
    CASE level = "read" -> "pull"
      [] level = "write" -> "push"
      [] OTHER -> level

\* What a team may hold on the repository beforehand: nothing, the level
\* the configuration asks for, or another one.
HeldChoices(level) ==
    IF level = None THEN {None, "pull", "admin"}
    ELSE {None, GitHubName(level),
          IF GitHubName(level) = "pull" THEN "admin" ELSE "pull"}

\* The teams of S as a configuration may list them: by name, or the other
\* way round.
ConfigOrders(S) == {InOrder(S, TeamNames), Reverse(InOrder(S, TeamNames))}

RepoSpec(name, team_permissions) == [name |-> name, teams |-> team_permissions]

ExistingTeams(S) == [t \in S |-> RemoteTeam("closed", None, NoMembers)]

\* The orders in which the teams to revoke may be listed.
RevokeOrders(rr, repo) ==
    IF repo.name \in DOMAIN rr
    THEN Perms(DOMAIN rr[repo.name] \ Keys(repo.teams))
    ELSE {<<>>}

GrantsOf(rr, repo_name) == IF repo_name \in DOMAIN rr THEN rr[repo_name] ELSE NoGrants

InitRepo ==
    /\ mode = "repos" /\ dry_run = FALSE /\ target = None
    /\ teams = <<>> /\ rTeams = ExistingTeams(RepoTeams)
    /\ todo = <<>> /\ idx = 0 /\ answer = "none"
    /\ changes = EmptyChanges /\ calls = <<>> /\ last = NoInvocation
    /\ nwrites = 0 /\ injected = 0 /\ ncalls = 0
    /\ ts = IdleSort /\ gd = IdleDep
    /\ pc = "p0"
    /\ \E want \in [RepoTeams -> Levels \cup {None}] :
        LET wanted == {t \in RepoTeams : want[t] # None}
        IN  /\ \E order \in ConfigOrders(wanted) :
                repositories = <<RepoSpec(HRepo,
                    [i \in 1..Len(order) |-> <<order[i], want[order[i]]>>])>>
            /\ \/ rRepos = <<>>
               \/ \E held \in [RepoTeams -> {None, "pull", "push", "admin",
                                             "maintain", "triage"}] :
                    /\ \A t \in RepoTeams : held[t] \in HeldChoices(want[t])
                    /\ rRepos = [r \in {HRepo} |->
                                   [t \in {x \in RepoTeams : held[x] # None} |-> held[t]]]

\* changes = process_repository_permissions(org, name, team_permissions, dry)
RepoCall(repo, drys) ==
    \E dry \in drys :
      \E F \in FailSets(RepoCalls(GrantsOf(rRepos, repo.name), repo.teams, dry)) :
      \E ord \in RevokeOrders(rRepos, repo) :
        LET r == process_repository_permissions(rTeams, rRepos, repo.name,
                                                repo.teams, dry, F, ord)
        IN  /\ changes' = r.changes
            /\ rRepos' = r.rr
            /\ Returned("process_repository_permissions", repo.name, dry,
                        rRepos, r, F)

HProcess ==
    /\ pc = "p0"
    /\ RepoCall(repositories[1], BOOLEAN)
    /\ pc' = IF last'.exc THEN "raised" ELSE "p1"
    /\ UNCHANGED <<argVars, configVars, orderVars, rTeams, todo, idx, answer>>

NextRepo == HProcess
SpecRepo == InitRepo /\ [][NextRepo]_vars

\* --------------------------------------------------------------- ordering
\* teams_dict = {team['name']: team for team in config['teams']}
ConfigNames == {teams[i].name : i \in 1..Len(teams)}

TeamData(name) == CHOOSE t \in Range(teams) : t.name = name

\* The longest chain get_dependent_teams is followed along (a cyclic parent
\* chain makes its loop append for ever).
MaxChain == 6

\* graph = {team['name']: set() ...}; graph[team['parent']].add(team['name'])
Graph == [n \in ConfigNames |->
            {teams[i].name : i \in {j \in 1..Len(teams) : teams[j].parent = n}}]

\* graph[team['parent']] of a parent that is no key of graph: KeyError
GraphKeyError == \E i \in 1..Len(teams) :
                    teams[i].parent # None /\ teams[i].parent \notin ConfigNames

\* topological_sort(config['teams']) is entered: lines 9-15.
TSBuild ==
    /\ pc = "sorting" /\ ts.pc = "idle"
    /\ ts' = IF GraphKeyError
             THEN [pc |-> "KeyError"]
             ELSE [pc |-> "loop", graph |-> Graph, i |-> 1, visited |-> {},
                   result |-> <<>>, stack |-> <<>>]
    /\ UNCHANGED <<argVars, configVars, callVars, rTeams, rRepos, pc, todo, idx,
                   answer, gd>>

\* for node in graph: if node not in visited: dfs(node); return result[::-1]
TSLoop ==
    /\ pc = "sorting" /\ ts.pc = "loop" /\ ts.stack = <<>>
    /\ IF ts.i > Len(teams)
       THEN ts' = [pc |-> "done", out |-> Reverse(ts.result)]
       ELSE LET node == teams[ts.i].name
            IN  ts' = IF node \in ts.visited
                      THEN [ts EXCEPT !.i = @ + 1]
                      ELSE [ts EXCEPT !.i = @ + 1,
                                      !.visited = @ \cup {node},
                                      !.stack = <<[node |-> node,
                                                   rest |-> ts.graph[node]]>>]
    /\ UNCHANGED <<argVars, configVars, callVars, rTeams, rRepos, pc, todo, idx,
                   answer, gd>>

\* if child not in visited: (otherwise the child is passed over)
Visited_never(child, visited) == FALSE
Visited(child, visited) == child \in visited

\* dfs(node), one step of the innermost call: the next child of the set
\* (in whatever order the set yields it), or result.append(node) and return.
TSDfs ==
    /\ pc = "sorting" /\ ts.pc = "loop" /\ ts.stack # <<>>
    /\ LET top == ts.stack[Len(ts.stack)]
           below == SubSeq(ts.stack, 1, Len(ts.stack) - 1)
       IN  \/ /\ top.rest = {}
              /\ ts' = [ts EXCEPT !.result = Append(@, top.node), !.stack = below]
           \/ \E child \in top.rest :
                LET popped == Append(below, [top EXCEPT !.rest = @ \ {child}])
                IN  ts' = IF Visited(child, ts.visited)
                          THEN [ts EXCEPT !.stack = popped]
                          ELSE [ts EXCEPT !.visited = @ \cup {child},
                                          !.stack = Append(popped,
                                              [node |-> child,
                                               rest |-> ts.graph[child]])]
    /\ UNCHANGED <<argVars, configVars, callVars, rTeams, rRepos, pc, todo, idx,
                   answer, gd>>

\* while current in teams_dict and 'parent' in teams_dict[current]
GDLoopCond_strict(current) ==
    /\ current \in ConfigNames
    /\ TeamData(current).parent \in ConfigNames
GDLoopCond(current) ==
    /\ current \in ConfigNames
    /\ TeamData(current).parent # None

\* get_dependent_teams(args.target, teams_dict) is entered: lines 32-33.
GDStart ==
    /\ pc = "walking" /\ gd.pc = "idle"
    /\ gd' = [pc |-> "loop", current |-> target, dependent_teams |-> <<>>]
    /\ UNCHANGED <<argVars, configVars, callVars, rTeams, rRepos, pc, todo, idx,
                   answer, ts>>

\* One turn of the while loop, or return dependent_teams[::-1].
GDStep ==
    /\ pc = "walking" /\ gd.pc = "loop"
    /\ IF GDLoopCond(gd.current)
       THEN /\ Len(gd.dependent_teams) < MaxChain
            /\ LET parent == TeamData(gd.current).parent
               IN  gd' = [gd EXCEPT !.dependent_teams = Append(@, parent),
                                    !.current = parent]
       ELSE gd' = [pc |-> "done", out |-> Reverse(gd.dependent_teams)]
    /\ UNCHANGED <<argVars, configVars, callVars, rTeams, rRepos, pc, todo, idx,
                   answer, ts>>

\* The two ordering functions called directly, on every list of at most
\* NTeams teams with distinct names, each with no parent or any parent name.
ParentChoices == Teams \cup {None}

TeamLists ==
    UNION {{s \in [1..k -> Teams] : NoDup(s)} : k \in 0..NTeams}

InitOrder ==
    /\ mode = "teams" /\ dry_run = FALSE
    /\ repositories = <<>> /\ rRepos = <<>> /\ rTeams = <<>>
    /\ todo = <<>> /\ idx = 0 /\ answer = "none"
    /\ changes = EmptyChanges /\ calls = <<>> /\ last = NoInvocation
    /\ nwrites = 0 /\ injected = 0 /\ ncalls = 0
    /\ ts = IdleSort /\ gd = IdleDep
    /\ \E names \in TeamLists :
        \E parents \in [1..Len(names) -> ParentChoices] :
            teams = [i \in 1..Len(names) |->
                        TeamSpec(names[i], parents[i], {}, {})]
    /\ \/ pc = "sorting" /\ target = None
       \/ pc = "walking" /\ target \in ConfigNames

NextOrder == TSBuild \/ TSLoop \/ TSDfs \/ GDStart \/ GDStep
SpecOrder == InitOrder /\ [][NextOrder]_vars

\* ------------------------------------------ remove_current_user_from_teams
\* One turn of the loop over teams_dict.items(): lines 108-115.  Every
\* failure inside the try is caught and reported; nothing leaves the turn.
Unlisted_membersOnly(team_data) == current_user \notin team_data.members
Unlisted(team_data) ==
    current_user \notin team_data.maintainers /\ current_user \notin team_data.members

SweepTeam(m, team_data, F) ==
    IF ~Unlisted(team_data)
    THEN m
    ELSE
    Then(Issue(m, <<"get_team_by_slug", team_data.name>>), LAMBDA m1 :
      IF team_data.name \notin DOMAIN m1.rt \/ Injected(m1, F) THEN m1
      ELSE
      Then(Issue(m1, <<"get_user", current_user>>), LAMBDA m2 :
        IF Injected(m2, F) THEN m2
        ELSE
        Then(Issue(m2, <<"has_in_members", team_data.name, current_user>>), LAMBDA m3 :
          IF Injected(m3, F) \/ current_user \notin MembersOf(m3.rt, team_data.name)
          THEN m3
          ELSE
          Then(Issue(m3, <<"get_user", current_user>>), LAMBDA m4 :
            IF Injected(m4, F) THEN m4
            ELSE
            Then(Issue(m4, <<"remove_membership", team_data.name, current_user>>),
                 LAMBDA m5 :
                   IF Injected(m5, F) THEN m5
                   ELSE [m5 EXCEPT !.rt =
                            RemoveMembership(@, team_data.name, current_user)])))))

\* The most calls one turn of the sweep can issue.
SweepCalls(rt, team_data) ==
    IF ~Unlisted(team_data) THEN 0
    ELSE IF team_data.name \notin DOMAIN rt THEN 1
    ELSE IF current_user \notin MembersOf(rt, team_data.name) THEN 3
    ELSE 5

\* ------------------------------------------------------------- the script
\* g.get_user().login and g.get_organization("open-telemetry"): lines 187-190.
Connect(m, F) ==
    Then(Issue(m, <<"get_user">>), LAMBDA m1 :
      IF Injected(m1, F) THEN Raise(m1)
      ELSE Then(Issue(m1, <<"get_organization", "open-telemetry">>), LAMBDA m2 :
             IF Injected(m2, F) THEN Raise(m2) ELSE m2))

\* response == 'yes' or response == 'y', of the answer in lower case
Answers == {"yes", "y", "YES", "Y", "no", "n", ""}

Lower(response) ==
    CASE response = "YES" -> "yes"
      [] response = "Y" -> "y"
      [] OTHER -> response

confirm_changes(response) == Lower(response) = "yes" \/ Lower(response) = "y"

\* if not args.dry_run and confirm_changes(): confirmed is FALSE when the
\* question was not asked.
RunPhase2_or(dry, confirmed) == ~dry \/ confirmed
RunPhase2(dry, confirmed) == ~dry /\ confirmed

\* dry_run=True, the argument of the first pass: lines 216 and 267.
Phase1DryRun == TRUE

RepoConfigNames == {repositories[i].name : i \in 1..Len(repositories)}

RepoData(name) == CHOOSE r \in Range(repositories) : r.name = name

\* list(repo_dict.keys())
RepoKeys == [i \in 1..Len(repositories) |-> repositories[i].name]

\* The runs followed are those in which at most MaxFail calls fail for a
\* reason other than the state of the organization.
WithinBudget == injected' <= MaxFail

DConnect ==
    /\ pc = "init"
    /\ \E F \in FailSets(2) :
        LET m == Connect(Machine(rTeams, rRepos), F)
        IN  /\ Returned("connect", None, FALSE, <<>>, m, F)
            /\ pc' = IF m.exc THEN "crashed" ELSE "start"
    /\ WithinBudget
    /\ UNCHANGED <<argVars, configVars, orderVars, rTeams, rRepos, todo, idx,
                   answer, changes>>

\* The target is looked up in the configuration: lines 196-205 and 248-257.
DTarget ==
    /\ pc = "start"
    /\ IF mode = "teams"
       THEN /\ pc' = IF target = None THEN "sorting"
                     ELSE IF target \notin ConfigNames THEN "target-not-found"
                     ELSE "walking"
            /\ UNCHANGED <<todo, idx>>
       ELSE IF target # None /\ target \notin RepoConfigNames
            THEN pc' = "target-not-found" /\ UNCHANGED <<todo, idx>>
            ELSE /\ todo' = IF target # None THEN <<target>> ELSE RepoKeys
                 /\ idx' = 1
                 /\ pc' = "phase1"
    /\ UNCHANGED <<argVars, configVars, orderVars, callVars, rTeams, rRepos, answer>>

\* teams_to_process = topological_sort(config['teams'])
DSorted ==
    /\ pc = "sorting" /\ ts.pc \in {"done", "KeyError"}
    /\ IF ts.pc = "done"
       THEN todo' = ts.out /\ idx' = 1 /\ pc' = "phase1"
       ELSE pc' = "crashed" /\ UNCHANGED <<todo, idx>>
    /\ UNCHANGED <<argVars, configVars, orderVars, callVars, rTeams, rRepos, answer>>

\* get_dependent_teams(args.target, teams_dict) + [args.target]
ScopedList_targetFirst(ancestors, name) == <<name>> \o ancestors
ScopedList(ancestors, name) == ancestors \o <<name>>

\* teams_to_process = get_dependent_teams(args.target, teams_dict) + [args.target]
DWalked ==
    /\ pc = "walking" /\ gd.pc = "done"
    /\ todo' = ScopedList(gd.out, target) /\ idx' = 1 /\ pc' = "phase1"
    /\ UNCHANGED <<argVars, configVars, orderVars, callVars, rTeams, rRepos, answer>>

\* One turn of a loop over teams_to_process (lines 208-217, 230-239):
\* team = teams_dict[team_name] is a KeyError for a name not configured.
DTeam(phase, dry) ==
    /\ pc = phase /\ mode = "teams" /\ idx <= Len(todo)
    /\ IF todo[idx] \notin ConfigNames
       THEN /\ pc' = "crashed"
            /\ last' = [op |-> "KeyError", name |-> todo[idx]]
            /\ UNCHANGED <<idx, changes, calls, nwrites, injected, ncalls>>
       ELSE /\ DiffCall(TeamData(todo[idx]), {dry}, FALSE)
            /\ WithinBudget
            /\ pc' = IF last'.exc THEN "crashed" ELSE pc
            /\ idx' = IF last'.exc THEN idx ELSE idx + 1
    /\ UNCHANGED <<argVars, configVars, orderVars, rTeams, rRepos, todo, answer>>

DTeamPhase1 == DTeam("phase1", Phase1DryRun)
DTeamPhase2 == DTeam("phase2", FALSE)

\* One turn of a loop over repos_to_process: lines 260-268, 276-284.
DRepo(phase, dry) ==
    /\ pc = phase /\ mode = "repos" /\ idx <= Len(todo)
    /\ RepoCall(RepoData(todo[idx]), {dry})
    /\ WithinBudget
    /\ pc' = IF last'.exc THEN "crashed" ELSE pc
    /\ idx' = IF last'.exc THEN idx ELSE idx + 1
    /\ UNCHANGED <<argVars, configVars, orderVars, rTeams, todo, answer>>

DRepoPhase1 == DRepo("phase1", Phase1DryRun)
DRepoPhase2 == DRepo("phase2", FALSE)

\* elif args.dry_run: "Dry run completed" else: "Operation cancelled"
SkippedNotice_swapped(dry) == IF dry THEN "cancelled" ELSE "dry-run-only"
SkippedNotice(dry) == IF dry THEN "dry-run-only" ELSE "cancelled"

\* if not args.dry_run and confirm_changes(): ... elif args.dry_run: ... else: ...
DGate ==
    /\ pc = "phase1" /\ idx > Len(todo)
    /\ \E response \in IF dry_run THEN {"not asked"} ELSE Answers :
        LET confirmed == ~dry_run /\ confirm_changes(response)
        IN  /\ answer' = IF dry_run THEN answer
                         ELSE IF confirmed THEN "yes" ELSE "no"
            /\ pc' = IF RunPhase2(dry_run, confirmed) THEN "phase2"
                     ELSE SkippedNotice(dry_run)
    /\ idx' = 1
    /\ UNCHANGED <<argVars, configVars, orderVars, callVars, rTeams, rRepos, todo>>

\* The second pass is through: the sweep (teams), or the end (repos).
DPhase2Done ==
    /\ pc = "phase2" /\ idx > Len(todo)
    /\ pc' = IF mode = "teams" THEN "sweep" ELSE "applied"
    /\ idx' = 1
    /\ UNCHANGED <<argVars, configVars, orderVars, callVars, rTeams, rRepos, todo,
                   answer>>

\* remove_current_user_from_teams(org, teams_dict, current_user), one team
DSweep ==
    /\ pc = "sweep" /\ idx <= Len(teams)
    /\ \E F \in FailSets(SweepCalls(rTeams, teams[idx])) :
        LET m == SweepTeam(Machine(rTeams, rRepos), teams[idx], F)
        IN  /\ rTeams' = m.rt
            /\ Returned("sweep", teams[idx].name, FALSE, rTeams, m, F)
    /\ WithinBudget
    /\ idx' = idx + 1
    /\ UNCHANGED <<argVars, configVars, orderVars, rRepos, pc, todo, answer, changes>>

DSweepDone ==
    /\ pc = "sweep" /\ idx > Len(teams)
    /\ pc' = "applied"
    /\ UNCHANGED <<argVars, configVars, orderVars, callVars, rTeams, rRepos, todo,
                   idx, answer>>

\* --------------------------------------------------------------- the runs
\* Team configurations: the first k team names, listed by name or the other
\* way round, with parents of one of these shapes.
Shapes == {"flat", "chain", "star", "dangling", "cycle"}

ParentIn(shape, i, k) ==
    CASE shape = "flat" -> None
      [] shape = "chain" -> IF i = 1 THEN None ELSE TeamNames[i - 1]
      [] shape = "star" -> IF i = 1 THEN None ELSE TeamNames[1]
      [] shape = "dangling" -> IF i = 1 THEN TeamNames[k + 1] ELSE TeamNames[i - 1]
      [] shape = "cycle" -> IF i = 1 THEN TeamNames[k] ELSE TeamNames[i - 1]

OtherUser == UserNames[2]
ThirdUser == UserNames[3]

\* The team of index i: the first team lists the current identity as a
\* maintainer when listed; every team has one member.
ShapedTeam(shape, i, k, listed) ==
    TeamSpec(TeamNames[i], ParentIn(shape, i, k),
             IF listed /\ i = 1 THEN {current_user} ELSE {}, {OtherUser})

TeamConfigs ==
    UNION {{[j \in 1..k |-> ShapedTeam(shape, IF up THEN j ELSE k + 1 - j, k, listed)] :
                shape \in Shapes, up \in BOOLEAN, listed \in BOOLEAN} : k \in 1..NTeams}

DesiredRoles(t) ==
    [u \in t.maintainers \cup t.members |-> RoleOf(u, t.maintainers)]

\* The organization beforehand: without teams, with the configured teams as
\* configured, or with the configured teams as GitHub leaves them when the
\* current identity has created them by hand.
RemoteTeamsFor(kind, config) ==
    LET names == {config[i].name : i \in 1..Len(config)}
        data(n) == CHOOSE t \in Range(config) : t.name = n
    IN  CASE kind = "empty" -> <<>>
          [] kind = "synced" ->
                [n \in names |->
                    RemoteTeam("closed",
                               IF data(n).parent \in names THEN data(n).parent ELSE None,
                               DesiredRoles(data(n)))]
          [] kind = "stale" ->
                [n \in names |->
                    RemoteTeam("secret", None,
                               [u \in {current_user, ThirdUser} |->
                                   IF u = current_user THEN "maintainer" ELSE "member"])]

\* Repository configurations: the first k repository names, each with the
\* same team permissions.
PermissionChoices ==
    {<<>>,
     <<<<TeamNames[1], "read">>>>,
     <<<<TeamNames[1], "write">>, <<TeamNames[2], "admin">>>>,
     <<<<TeamNames[2], "maintain">>>>}

GrantChoices ==
    {NoGrants,
     [t \in {TeamNames[1]} |-> "pull"],
     [t \in {TeamNames[1], TeamNames[2]} |-> IF t = TeamNames[1] THEN "push" ELSE "admin"],
     [t \in {TeamNames[2]} |-> "triage"]}

InitRun ==
    /\ pc = "init"
    /\ dry_run \in BOOLEAN
    /\ todo = <<>> /\ idx = 0 /\ answer = "none"
    /\ changes = EmptyChanges /\ calls = <<>> /\ last = NoInvocation
    /\ nwrites = 0 /\ injected = 0 /\ ncalls = 0
    /\ ts = IdleSort /\ gd = IdleDep
    /\ \/ /\ mode = "teams"
          /\ target \in Teams \cup {None}
          /\ teams \in TeamConfigs
          /\ \E kind \in {"empty", "synced", "stale"} :
                rTeams = RemoteTeamsFor(kind, teams)
          /\ repositories = <<>> /\ rRepos = <<>>
       \/ /\ mode = "repos"
          /\ target \in Repos \cup {None}
          /\ teams = <<>> /\ rTeams = ExistingTeams(RepoTeams)
          /\ \E k \in 1..NRepos, perms \in PermissionChoices :
                repositories = [i \in 1..k |-> RepoSpec(RepoNames[i], perms)]
          /\ \E present \in {Repos, Repos \ {RepoNames[1]}, {}}, grants \in GrantChoices :
                rRepos = [r \in present |-> grants]

Next ==
    \/ DConnect \/ DTarget
    \/ TSBuild \/ TSLoop \/ TSDfs \/ DSorted
    \/ GDStart \/ GDStep \/ DWalked
    \/ DTeamPhase1 \/ DRepoPhase1 \/ DGate
    \/ DTeamPhase2 \/ DRepoPhase2 \/ DPhase2Done
    \/ DSweep \/ DSweepDone

Spec == InitRun /\ [][Next]_vars

\* The script is one sequential process: it takes its next step whenever it
\* has one (the prompt is answered).
\* The runs followed to their end: configurations of at most MaxLiveTeams
\* teams listed by name whose parents are configured and without a cycle,
\* over an organization without teams or with teams made by hand; the
\* repository runs of at most as many repositories, over repositories that
\* grant no team or two teams.
MaxLiveTeams == 2

InitLive ==
    /\ InitRun
    /\ Len(teams) <= MaxLiveTeams /\ Len(repositories) <= MaxLiveTeams
    /\ \A i \in 1..Len(teams) :
          /\ teams[i].name = TeamNames[i]
          /\ teams[i].parent \in {None} \cup {TeamNames[j] : j \in 1..(i - 1)}
    /\ \A n \in DOMAIN rTeams : mode = "teams" => rTeams[n].privacy = "secret"
    /\ \A r \in DOMAIN rRepos : Cardinality(DOMAIN rRepos[r]) # 1

SpecLive == InitLive /\ [][Next]_vars /\ WF_vars(Next)

\* ============================================================== properties
\* create_or_update_team has returned a ChangeSet, none of its calls having
\* been made to fail.
DiffReturned ==
    last.op = "create_or_update_team" /\ ~last.exc /\ last.nfail = 0

\* C5: the add entries of diff_team are exactly the names of (M \cup B) - C,
\* tagged maintainer when in M (also when in both M and B) and member
\* otherwise, the remove entries exactly the names of C - (M \cup B), names of
\* both C and M \cup B get no entry; a team that does not exist has C empty and
\* a create entry.
C5_DiffCorrect ==
    DiffReturned =>
        LET t == TeamData(last.name)
            M == t.maintainers
            B == t.members
            C == MembersOf(last.pre, last.name)
        IN  /\ Len(changes.add) = Cardinality((M \cup B) \ C)
            /\ \A u \in (M \cup B) \ C :
                \E i \in 1..Len(changes.add) :
                    changes.add[i] =
                        MsgAdd(u, last.name, IF u \in M THEN "maintainer" ELSE "member")
            /\ Len(changes.remove) = Cardinality(C \ (M \cup B))
            /\ \A u \in C \ (M \cup B) :
                \E i \in 1..Len(changes.remove) :
                    changes.remove[i] = MsgRemove(u, last.name)
            /\ (last.name \notin DOMAIN last.pre) <=> (Len(changes.create) = 1)
            /\ (last.name \in DOMAIN last.pre) => changes.create = <<>>

\* The diff of an existing team with a name to add that is both maintainer and
\* member, a name to remove and a name to keep.
C5_Witness ==
    /\ DiffReturned
    /\ last.name \in DOMAIN last.pre
    /\ LET t == TeamData(last.name)
           C == MembersOf(last.pre, last.name)
       IN  /\ (t.maintainers \cap t.members) \ C # {}
           /\ C \ (t.maintainers \cup t.members) # {}
           /\ C \cap (t.maintainers \cup t.members) # {}
           /\ Len(changes.add) >= 1 /\ Len(changes.remove) >= 1

\* The remote team is what the configuration asks for.
TeamInSync(rt, t) ==
    /\ t.name \in DOMAIN rt
    /\ rt[t.name].privacy = "closed"
    /\ rt[t.name].parent = t.parent
    /\ DOMAIN rt[t.name].members = t.maintainers \cup t.members

\* C6: for a remote team that is closed, has the desired parent and the
\* desired members, diff_team returns empty add, remove and update sequences,
\* in dry-run and in live mode.
C6_DiffIdempotent ==
    (DiffReturned /\ TeamInSync(last.pre, TeamData(last.name))) =>
        /\ changes.add = <<>>
        /\ changes.remove = <<>>
        /\ changes.update = <<>>

NoEntries(c) ==
    c.create = <<>> /\ c.update = <<>> /\ c.add = <<>> /\ c.remove = <<>>

\* C8: after apply_team has run to completion without a remote failure, the
\* diff of a second run with the same spec is empty, and the second run
\* issues no mutating call.
C8_ApplyConverges ==
    /\ pc = "h3" => NoEntries(changes)
    /\ pc = "h4" => Mutations(calls) = <<>>

\* The k-th parent of a team: None past a root or past a name that is not
\* configured.
RECURSIVE Up(_, _)
Up(name, k) ==
    IF k = 0 THEN name
    ELSE IF name \notin ConfigNames THEN None
    ELSE Up(TeamData(name).parent, k - 1)

Ancestors(name) == {Up(name, k) : k \in 1..Len(teams)} \ {None}

\* The parent references form a forest: every parent is configured, and no
\* team is its own ancestor.
IsForest ==
    /\ \A t \in Range(teams) : t.parent \in ConfigNames \cup {None}
    /\ \A n \in ConfigNames : n \notin Ancestors(n)

Position(seq, x) == CHOOSE i \in 1..Len(seq) : seq[i] = x

\* C3: for teams whose parents form a forest, topological_sort returns every
\* team name exactly once and every team after its parent and all its
\* ancestors.
C3_TopologicalOrder ==
    (ts.pc = "done" /\ IsForest) =>
        /\ Len(ts.out) = Len(teams)
        /\ Range(ts.out) = ConfigNames
        /\ \A n \in ConfigNames : \A a \in Ancestors(n) :
            Position(ts.out, a) < Position(ts.out, n)

\* A chain of three listed leaf first has been sorted.
C3_Witness ==
    /\ ts.pc = "done" /\ IsForest /\ Len(teams) = 3
    /\ Cardinality(Ancestors(teams[1].name)) = 2

\* The ancestors of a team, the root first.
RECURSIVE RootFirst(_, _)
RootFirst(name, k) ==
    IF k = 0 \/ name \notin ConfigNames \/ TeamData(name).parent = None THEN <<>>
    ELSE Append(RootFirst(TeamData(name).parent, k - 1), TeamData(name).parent)

AcyclicChain(name) == name \notin Ancestors(name)
                      /\ \A a \in Ancestors(name) : a \notin Ancestors(a)

\* C4: for a target whose parent chain is acyclic, get_dependent_teams
\* returns its ancestors root first, without the target and without any
\* other team; for a root, the empty sequence.
C4_AncestorChain ==
    (gd.pc = "done" /\ AcyclicChain(target)) =>
        /\ gd.out = RootFirst(target, Len(teams))
        /\ target \notin Range(gd.out)
        /\ Range(gd.out) = Ancestors(target)
        /\ (TeamData(target).parent = None => gd.out = <<>>)

\* The chain of a team with a grandparent has been returned.
C4_Witness ==
    /\ gd.pc = "done" /\ AcyclicChain(target)
    /\ Len(gd.out) = 2 /\ gd.out[2] = TeamData(target).parent

\* process_repository_permissions has returned, none of its calls having been
\* made to fail.
RepoReturned ==
    last.op = "process_repository_permissions" /\ ~last.exc /\ last.nfail = 0

\* The repository's grants are the desired ones in GitHub's vocabulary.
GrantsInSync(rr, repo) ==
    /\ repo.name \in DOMAIN rr
    /\ DOMAIN rr[repo.name] = Keys(repo.teams)
    /\ \A i \in 1..Len(repo.teams) :
        rr[repo.name][repo.teams[i][1]] = GitHubName(repo.teams[i][2])

\* C7: when the repository exists and its team grants are the desired ones
\* translated, diff_repo_permissions returns empty add, remove and update
\* sequences.
C7_RepoDiffIdempotent ==
    (RepoReturned /\ GrantsInSync(last.pre, RepoData(last.name))) =>
        /\ changes.add = <<>>
        /\ changes.remove = <<>>
        /\ changes.update = <<>>

\* A repository in sync on which two teams hold read and write.
C7_Witness ==
    /\ RepoReturned /\ GrantsInSync(last.pre, RepoData(last.name))
    /\ {RepoData(last.name).teams[i][2] :
            i \in 1..Len(RepoData(last.name).teams)} = {"read", "write"}


\* A step of the run that issues a mutating call or changes the organization.
Mutates ==
    \/ nwrites' # nwrites
    \/ rTeams' # rTeams
    \/ rRepos' # rRepos

\* C1: in both modes, no mutating remote call is issued and the remote state
\* does not change unless the run was started without the dry-run flag and
\* the confirmation was affirmative; the first pass, and every dry-run or
\* declined run, issue no mutating call.
C1_NoMutationUnlessConfirmed ==
    /\ [][Mutates => (~dry_run /\ answer = "yes" /\ pc \in {"phase2", "sweep"})]_vars
    /\ []((dry_run \/ answer # "yes" \/ pc \in {"init", "start", "sorting",
                                                "walking", "phase1"})
            => nwrites = 0)

\* a confirmed live run that has issued mutating calls and come to its end
C1_Witness ==
    pc = "applied" /\ ~dry_run /\ answer = "yes" /\ nwrites > 0 /\ mode = "repos"

\* The remote team is as configured, the current identity aside.
TeamConverged(rt, t) ==
    /\ t.name \in DOMAIN rt
    /\ rt[t.name].privacy = "closed"
    /\ rt[t.name].parent = t.parent
    /\ DOMAIN rt[t.name].members \ {current_user}
         = (t.maintainers \cup t.members) \ {current_user}

\* C2: a team run that was confirmed, none of whose remote calls failed and
\* that has reached its end leaves every processed team existing, closed,
\* under its desired parent and with the desired maintainers and members
\* (the current identity aside).
C2_Phase2Converges ==
    (mode = "teams" /\ pc = "applied" /\ injected = 0) =>
        \A i \in 1..Len(todo) : TeamConverged(rTeams, TeamData(todo[i]))

\* The last process_repository_permissions did not get its repository:
\* there is none of the name, or the lookup failed.
LookupFailed ==
    /\ last.op = "process_repository_permissions"
    /\ last.name \notin DOMAIN last.pre \/ 1 \in last.failed

\* C9: when the repository lookup fails, process_repository_permissions
\* returns one error entry and no add, update or remove entry, has issued no
\* call but the lookup, in dry-run and in live mode, and the script goes on
\* with the next repository.
C9_RepoNotFound ==
    /\ [](LookupFailed =>
            /\ Len(changes.error) = 1
            /\ changes.add = <<>> /\ changes.update = <<>> /\ changes.remove = <<>>
            /\ calls = << <<"get_repo", last.name>> >>
            /\ ~last.exc
            /\ pc # "crashed")
    /\ [][(ncalls' # ncalls /\ LookupFailed') =>
            (pc' = pc /\ idx' = idx + 1 /\ rRepos' = rRepos /\ rTeams' = rTeams)]_vars

\* a live pass has met a repository it cannot find and has another to go
C9_Witness ==
    /\ LookupFailed /\ ~last.dry
    /\ pc = "phase2" /\ idx = 2 /\ idx <= Len(todo)
    /\ todo[1] = last.name

\* The calls of the last process_repository_permissions that concern one
\* team and failed.
FailedTeamCalls ==
    IF last.op # "process_repository_permissions" THEN {}
    ELSE {k \in last.failed :
            calls[k][1] \in {"get_team_by_slug", "update_team_repository",
                             "remove_from_repo"}}

\* C10: in process_repository_permissions, dry-run or live, the failure of a
\* call that concerns one team (its lookup, its grant, its revocation, for a
\* desired team or for one being removed) is caught and recorded as an error
\* entry for the team, and the script goes on.
C10_TeamFailuresCaught ==
    \A k \in FailedTeamCalls :
        /\ ~last.exc
        /\ \E e \in Range(changes.error) :
              e = MsgErrorProcessing(calls[k][2], last.name)
        /\ pc # "crashed"


\* A step of the sweep: one team of the configuration is handled.
SweepStep == pc = "sweep" /\ idx' # idx

\* The configuration names the current identity in the team.
Listed(t) == current_user \in t.maintainers \cup t.members

\* The team the last step of the sweep handled, as configured.
Swept == TeamData(last.name)

\* C11: after the sweep has handled a team that does not list the current
\* identity, and none of the calls for it failed, the identity is not a
\* remote member of the team; for a team that lists the identity the sweep
\* issues no call and leaves the organization as it is; the sweep of a team
\* changes no other team and, whether or not a call fails, goes on with the
\* next team, so that a sweep without a failure leaves the identity in no
\* team that does not list it.
C11_Sweep ==
    /\ []((last.op = "sweep" /\ ~Listed(Swept) /\ last.nfail = 0)
            => current_user \notin MembersOf(rTeams, last.name))
    /\ []((last.op = "sweep" /\ Listed(Swept))
            => (calls = <<>> /\ rTeams = last.pre))
    /\ []((pc = "applied" /\ mode = "teams" /\ injected = 0)
            => \A i \in 1..Len(teams) :
                  ~Listed(teams[i]) => current_user \notin MembersOf(rTeams, teams[i].name))
    /\ [][SweepStep =>
            /\ pc' = "sweep" /\ idx' = idx + 1 /\ ~last'.exc
            /\ last'.name = teams[idx].name
            /\ DOMAIN rTeams' = DOMAIN rTeams
            /\ \A n \in DOMAIN rTeams : n # teams[idx].name => rTeams'[n] = rTeams[n]
            /\ Listed(teams[idx]) => (ncalls' = ncalls /\ rTeams' = rTeams)]_vars

\* the sweep has revoked the identity's membership of a team that does not
\* list it, after a team that lists it and was left alone, and is through
C11_Witness ==
    /\ pc = "applied" /\ last.op = "sweep" /\ last.nfail = 0
    /\ ~Listed(Swept)
    /\ current_user \in MembersOf(last.pre, last.name)
    /\ current_user \notin MembersOf(rTeams, last.name)
    /\ \E i \in 1..Len(teams) :
          Listed(teams[i]) /\ current_user \in MembersOf(rTeams, teams[i].name)


\* A team run for one target, every ancestor of which is configured and
\* whose parent chain has no cycle.
Scoped ==
    /\ mode = "teams" /\ target \in ConfigNames
    /\ AcyclicChain(target) /\ Ancestors(target) \subseteq ConfigNames

InTeamPass == mode = "teams" /\ pc \in {"phase1", "phase2"}

\* root -> mid -> target, when the target has such a chain
ThreeChain ==
    LET mid == TeamData(target).parent
        root == TeamData(mid).parent
    IN  (mid # None /\ root # None /\ TeamData(root).parent = None)
            => todo = <<root, mid, target>>

\* C12: in a team run scoped to a target, the list to process is the
\* target's ancestors root first and then the target ([root, mid, X] for a
\* chain root -> mid -> X); each call of the first and of the second pass
\* is for the next team of that list, in that order, and a pass is left
\* only when the whole list has been processed (or by an exception).
C12_ScopedOrder ==
    /\ []((pc \in {"phase1", "phase2", "sweep", "applied",
                   "dry-run-only", "cancelled"} /\ Scoped)
            => /\ todo = Append(RootFirst(target, Len(teams)), target)
               /\ Range(todo) = Ancestors(target) \cup {target}
               /\ ThreeChain)
    /\ [][(InTeamPass /\ ncalls' # ncalls /\ Scoped)
            => /\ idx <= Len(todo)
               /\ last'.op = "create_or_update_team"
               /\ last'.name = todo[idx]
               /\ last'.dry = (pc = "phase1")
               /\ todo' = todo
               /\ (idx' = idx + 1 /\ pc' = pc) \/ pc' = "crashed"]_vars
    /\ [][(InTeamPass /\ pc' \notin {pc, "crashed"} /\ Scoped)
            => idx = Len(todo) + 1]_vars

\* the second pass of a run scoped to a team with a parent and a
\* grandparent has just processed the target, the last of three
C12_Witness ==
    /\ Scoped /\ pc = "phase2" /\ Len(todo) = 3 /\ idx = 4
    /\ last.op = "create_or_update_team" /\ last.name = target /\ ~last.dry
    /\ todo[2] = TeamData(target).parent
    /\ todo[1] = TeamData(todo[2]).parent


\* The target named is not in the configuration of the mode.
TargetAbsent ==
    /\ target # None
    /\ target \notin (IF mode = "teams" THEN ConfigNames ELSE RepoConfigNames)

\* C13: a run whose target is absent from the configuration ends in
\* target-not-found with no entity processed and without any remote call,
\* read or write, having been issued.
C13_TargetNotFoundFirst ==
    /\ TargetAbsent => pc \in {"init", "start", "crashed", "target-not-found"}
    /\ pc = "target-not-found" =>
          /\ TargetAbsent
          /\ todo = <<>> /\ idx = 0
          /\ nwrites = 0
          /\ ncalls = 0


Ended == pc \in {"applied", "dry-run-only", "cancelled"}

\* The run starts with a target that is configured, or none, and with team
\* parents that form a forest (a parent that is not configured, and a cycle
\* of parents, are the subject of C15 and C16).
ValidRun == pc = "init" /\ ~TargetAbsent /\ IsForest

\* The run has ended because a remote call raised.
Raised == pc = "crashed" /\ last.op \notin {"none", "KeyError"} /\ last.exc

\* C14: a run whose target, if any, is found and whose team parents form a
\* forest ends, unless a remote call raises, in one of applied, dry-run-only and cancelled and stays there:
\* in dry-run-only exactly when --dry-run was given (nothing is asked then),
\* in cancelled exactly when it was not given and the answer was not yes, in
\* applied exactly when it was not given and the answer was yes; the
\* question is put only after the first pass has processed its whole list.
C14_TerminalStates ==
    /\ ValidRun ~> (Ended \/ Raised)
    /\ [](pc = "dry-run-only" <=> (Ended /\ dry_run))
    /\ [](pc = "cancelled" <=> (Ended /\ ~dry_run /\ answer = "no"))
    /\ [](pc = "applied" <=> (Ended /\ ~dry_run /\ answer = "yes"))
    /\ [](dry_run => answer = "none")
    /\ [][Ended => pc' = pc]_vars
    /\ [][(answer' # answer \/ (pc = "phase1" /\ pc' \notin {"phase1", "crashed"}))
            => (pc = "phase1" /\ idx = Len(todo) + 1 /\ ncalls >= 2 + Len(todo))]_vars

\* a run of more than one entity, declined at the prompt, has ended
C14_Witness ==
    /\ pc = "cancelled" /\ ~dry_run /\ answer = "no"
    /\ Len(todo) > 1 /\ ~TargetAbsent /\ IsForest


\* Some team is its own ancestor.
HasCycle == \E n \in ConfigNames : n \in Ancestors(n)

\* topological_sort is at work (graph built, not yet returned).
Sorting == pc = "sorting" /\ ts.pc = "loop"

RECURSIVE FramesLeft(_)
FramesLeft(stack) ==
    IF stack = <<>> THEN 0
    ELSE 1 + Cardinality(Head(stack).rest) + FramesLeft(Tail(stack))

RECURSIVE NodesLeft(_)
NodesLeft(nodes) ==
    IF nodes = {} THEN 0
    ELSE LET n == CHOOSE x \in nodes : TRUE
         IN  1 + Cardinality(ts.graph[n]) + NodesLeft(nodes \ {n})

\* The steps topological_sort has yet to take: the turns of its loop, and
\* for every call of dfs, running or to come, its children and its return.
StepsLeft ==
    (Len(teams) + 1 - ts.i) + FramesLeft(ts.stack)
        + NodesLeft(ConfigNames \ ts.visited)

\* C15 as stated: for teams whose parent references contain a cycle,
\* topological_sort does not return.
C15_CycleDiverges ==
    (pc = "sorting" /\ HasCycle) => ts.pc # "done"

\* C15 as the code has it: topological_sort detects no cycle, and returns
\* all the same.  dfs is entered once for a name (visited), so the recursion
\* is never deeper than there are teams, every step leaves one step fewer
\* to take, and the result holds every name once; for parents with a cycle
\* some team of the result comes before its parent.
C15_CycleTerminates ==
    /\ [](Sorting =>
            /\ Len(ts.stack) <= Len(teams)
            /\ \A i, j \in 1..Len(ts.stack) :
                  ts.stack[i].node = ts.stack[j].node => i = j
            /\ StepsLeft >= 0)
    /\ [][(Sorting /\ ts' # ts) =>
            IF ts'.pc = "loop" THEN StepsLeft' = StepsLeft - 1
            ELSE ts'.pc = "done" /\ StepsLeft = 0]_vars
    /\ []((pc = "sorting" /\ ts.pc = "done") =>
            /\ Len(ts.out) = Len(teams)
            /\ Range(ts.out) = ConfigNames
            /\ (HasCycle => \E n \in ConfigNames :
                  /\ TeamData(n).parent \in ConfigNames
                  /\ Position(ts.out, n) <= Position(ts.out, TeamData(n).parent)))

\* teams on a cycle of three have been sorted
C15_Witness ==
    /\ pc = "sorting" /\ ts.pc = "done"
    /\ \E n \in ConfigNames : n \in Ancestors(n) /\ Cardinality(Ancestors(n)) = 3


\* Some team names a parent that is not configured.
HasDangling ==
    \E i \in 1..Len(teams) : teams[i].parent \notin ConfigNames \cup {None}

\* C16: a team whose parent is not configured is not rejected: ordering
\* (topological_sort in a full run, get_dependent_teams in a scoped one) and
\* the first pass go through for it, and a run with such a team leaves the
\* first pass by an exception only when a remote call raised.
C16_DanglingParentTolerated ==
    (mode = "teams" /\ HasDangling /\ ~TargetAbsent) =>
        /\ ts.pc # "KeyError"
        /\ last.op # "KeyError"
        /\ pc = "crashed" => Raised


\* C17: apply_changes grants and revokes by the members the team has when it
\* is called: when the members of the team have changed since the ChangeSet
\* was computed, the team's members after an apply_changes none of whose
\* calls failed are the desired maintainers and members.
C17_ApplyRereads ==
    (pc = "h2d" /\ last.nfail = 0) =>
        MembersOf(rTeams, HTeam) = teams[1].maintainers \cup teams[1].members


\* C18: a live process_repository_permissions on a repository that exists,
\* none of whose calls failed, leaves the repository with exactly the
\* desired teams, each at its desired level in GitHub's vocabulary (read is
\* pull, write is push, admin, maintain and triage are themselves): every
\* other team that held a grant has lost it.
C18_LiveRepoConverges ==
    (RepoReturned /\ ~last.dry /\ last.name \in DOMAIN last.pre) =>
        /\ GrantsInSync(rRepos, RepoData(last.name))
        /\ changes.error = <<>>
        /\ \A t \in DOMAIN last.pre[last.name] \ Keys(RepoData(last.name).teams) :
              t \notin DOMAIN rRepos[last.name]

\* a live call has revoked one team's grant and set another team's, asked
\* for as read or write, on a repository that was not as desired
C18_Witness ==
    /\ RepoReturned /\ ~last.dry /\ last.name \in DOMAIN last.pre
    /\ ~GrantsInSync(last.pre, RepoData(last.name))
    /\ DOMAIN last.pre[last.name] \ Keys(RepoData(last.name).teams) # {}
    /\ \E i \in 1..Len(RepoData(last.name).teams) :
          /\ RepoData(last.name).teams[i][2] \in {"read", "write"}
          /\ rRepos[last.name][RepoData(last.name).teams[i][1]] \in {"pull", "push"}


\* The place of a mutating call in the order structure, grants, revocations.
Rank(call) ==
    CASE call[1] = "create_team" -> 1
      [] call[1] = "edit" /\ call[3] = "privacy" -> 2
      [] call[1] = "edit" /\ call[3] = "parent_team_id" -> 3
      [] call[1] = "add_membership" -> 4
      [] call[1] = "remove_membership" -> 5

\* C19: the mutating calls of one apply_changes come in the order creation,
\* visibility, parent, grants, revocations: each structural call at most
\* once, no membership call before a structural one, no revocation before a
\* grant.
C19_ApplyOrder ==
    last.op = "apply_changes" =>
        \A i, j \in 1..Len(calls) :
            (i < j /\ IsMutating(calls[i]) /\ IsMutating(calls[j])) =>
                /\ Rank(calls[i]) <= Rank(calls[j])
                /\ Rank(calls[i]) <= 3 => Rank(calls[i]) < Rank(calls[j])

\* one apply_changes has corrected the visibility, set the parent, granted
\* and revoked
C19_Witness ==
    /\ last.op = "apply_changes" /\ ~last.exc
    /\ {Rank(calls[k]) : k \in {n \in 1..Len(calls) : IsMutating(calls[n])}}
          = {2, 3, 4, 5}


\* C20: in a team run scoped to a target, every mutating call, those of the
\* sweep included, is on the target or on one of its ancestors, and the
\* other teams of the organization stay as they are.
C20_ScopedFrame ==
    (mode = "teams" /\ target \in ConfigNames
        /\ last.op \in {"create_or_update_team", "sweep"}) =>
        LET chain == Ancestors(target) \cup {target}
        IN  /\ \A k \in 1..Len(calls) :
                  IsMutating(calls[k]) => calls[k][2] \in chain
            /\ \A n \in DOMAIN last.pre \ chain :
                  n \in DOMAIN rTeams /\ rTeams[n] = last.pre[n]

====
